---- MODULE Spec2Model ----
(***************************************************************************)
(* Model of MeetingSchedulerAgent (src/agent.py): the conversation history, *)
(* the chat orchestration loop, the three Cal.com tools and the two request *)
(* paths of the backend client.                                             *)
(*                                                                          *)
(* Python values are modelled as follows.                                   *)
(*   - None is the string "None"; a raised exception is a record with a     *)
(*     non-empty exc field.                                                 *)
(*   - a dict is a TLA+ function from key strings to values (the empty      *)
(*     dict is <<>>); a decoded JSON value is tagged with its type.         *)
(*   - a text is a tagged record: [text |-> s] for a fixed string,          *)
(*     [chars |-> t] for a user text, [json |-> v] for json.dumps(v), a    *)
(*     text that decodes to v; None in a place that holds a text is        *)
(*     [none |-> TRUE].                                                     *)
(*   - a user text is a tuple of one-character strings, so that lower() and *)
(*     the substring test of the guard are computed, not assumed.           *)
(***************************************************************************)
EXTENDS Integers, Sequences, FiniteSets, TLC

VARIABLES
    cal_api_key,    \* self.cal_api_key, fixed at construction
    messages,       \* self.messages, the conversation history
    pc,             \* position of the running chat call, "idle" between calls
    user_input,     \* chat's parameter
    turn_count,     \* chat's local turn_count
    pending,        \* response_message.tool_calls of the round being dispatched
    idx,            \* position of the for loop over pending
    result,         \* how the last chat call ended: returned value or exception
    requests,       \* completion requests issued by the current chat call
    http_log,       \* backend HTTP requests issued by the current chat call
    varied,         \* non-default choices the environment has made so far
    call,           \* the tool or client operation last invoked on its own,
                    \* outside chat: its inputs and how it ended
    served          \* for each chat call so far, the session whose message it
                    \* handles

vars == <<cal_api_key, messages, pc, user_input, turn_count, pending, idx,
          result, requests, http_log, varied, call, served>>

-----------------------------------------------------------------------------
(* Bounds of the model *)

\* tool calls per assistant message
MaxCalls == 2
\* non-default choices of the environment (user text, tool call, backend reply)
MaxVaried == 1
\* a new chat call starts only while the history is at most this long
MaxHistory == 4
\* characters of the longest response text
MaxRaw == 201

(* Program constants *)

MAX_TURNS == 7

None == "None"

\* None where a text is expected (a message content, a return value)
NoneValue == [none |-> TRUE]

Text(s) == [text |-> s]

Chars(t) == [chars |-> t]

-----------------------------------------------------------------------------
(* Fixed texts *)

system_prompt == [role |-> "system", content |-> Text("You are a chatbot that assists users in booking meetings on Cal.com and retrieving their scheduled Cal.com events."),
                  tool_calls |-> <<>>, tool_call_id |-> None, name |-> None]

no_key_message == Text("I can't perform Cal.com operations because the Cal.com API key is not configured. Please ask the administrator to set it up.")

service_error_appended == Text("Sorry, I encountered an error communicating with the AI service.")

service_error_returned == Text("Sorry, I encountered an error trying to connect to the AI service.")

fallback_message == Text("Sorry, I couldn't complete your request after a few attempts. There might be an issue with repeated function calls or understanding the final step.")

tool_not_configured == "Cal.com API key not configured in the agent."

client_not_configured == "Cal.com API key not configured. Cannot perform Cal.com operations."

-----------------------------------------------------------------------------
(* Python helpers *)

\* dict membership and dict.get
Has(d, k) == k \in DOMAIN d

Get(d, k, default) == IF k \in DOMAIN d THEN d[k] ELSE default

\* variant: the credential is tested with `is not None`
KeySet_IsNotNone(key) == key # None

\* truthiness of the credential: None and "" are falsy
KeySet(key) == key # None /\ key # ""

\* json.dumps
json_dumps(v) == [json |-> v]

\* str.lower() on the characters user texts are drawn from
LowerChar(c) ==
    CASE c = "B" -> "b" [] c = "O" -> "o" [] c = "K" -> "k"
      [] c = "S" -> "s" [] c = "H" -> "h" [] c = "W" -> "w"
      [] c = "M" -> "m" [] c = "E" -> "e" [] c = "T" -> "t"
      [] c = "I" -> "i" [] c = "N" -> "n" [] c = "G" -> "g"
      [] c = "C" -> "c" [] c = "D" -> "d" [] c = "U" -> "u"
      [] c = "L" -> "l" [] c = "A" -> "a"
      [] OTHER -> c

\* variant: the guard tests the raw text, without lower()
Lower_Raw(s) == s

Lower(s) == [i \in 1..Len(s) |-> LowerChar(s[i])]

\* the substring test `sub in s`
Contains(s, sub) ==
    \E i \in 0..(Len(s) - Len(sub)) :
        \A j \in 1..Len(sub) : s[i + j] = sub[j]

intents == { <<"b","o","o","k">>,
             <<"s","h","o","w">>,
             <<"m","e","e","t","i","n","g">>,
             <<"s","c","h","e","d","u","l","e">>,
             <<"c","a","l",".","c","o","m">>,
             <<"c","a","n","c","e","l">> }

\* any(intent in user_input.lower() for intent in [...])
HasIntent(text) == \E intent \in intents : Contains(Lower(text), intent)

\* the guard of chat
NoKeyGuard(key, text) == ~KeySet(key) /\ HasIntent(text)

-----------------------------------------------------------------------------
(* Decoded JSON values and their Python behaviour *)

JDict(d) == [t |-> "dict", v |-> d]

\* the payload v is a record for every type, so that two decoded values can
\* always be compared
JList(l) == [t |-> "list", v |-> [items |-> l]]

JNull == [t |-> "null", v |-> NoneValue]

IsDict(x) == x.t = "dict"

\* variant: the test is `x is not None`
Truthy_IsNotNone(x) == x.t # "null"

\* bool(x)
Truthy(x) ==
    CASE x.t = "dict" -> DOMAIN x.v # {}
      [] x.t = "list" -> Len(x.v.items) > 0
      [] OTHER -> FALSE

\* `k in x` for a dict (keys) or a list (elements); None is not iterable
In(k, x) ==
    CASE x.t = "dict" -> k \in DOMAIN x.v
      [] x.t = "list" -> \E i \in 1..Len(x.v.items) :
                            x.v.items[i].t = "str" /\ x.v.items[i].v = k
      [] OTHER -> FALSE

-----------------------------------------------------------------------------
(* Dates, times and zones.  A naive datetime is a number of minutes of wall  *)
(* clock since 2025-03-10 00:00; an instant is a number of minutes since     *)
(* 2025-03-10T00:00Z.  An aware datetime is [naive, fold, tz].               *)

\* ZoneInfo(timeZone): the zone, ValueError for a key that is not a normalized
\* relative path, or ZoneInfoNotFoundError (a KeyError, not a ValueError) when
\* the name has no zone definition
ZoneInfo(timeZone) ==
    CASE timeZone = "Europe/Berlin" -> [exc |-> "", key |-> "Europe/Berlin"]
      [] timeZone = "UTC"           -> [exc |-> "", key |-> "UTC"]
      [] timeZone = "../UTC"        -> [exc |-> "ValueError", key |-> None]
      [] OTHER -> [exc |-> "ZoneInfoNotFoundError", key |-> None]

\* Europe/Berlin in 2025: the wall clock jumps from 02:00 to 03:00 on
\* 2025-03-30 (day 20) and from 03:00 back to 02:00 on 2025-10-26 (day 230)
GapStart == 20 * 1440 + 120

FoldStart == 230 * 1440 + 120

\* tzinfo.utcoffset(dt) of the zone for a wall-clock time: in the gap fold 0
\* takes the offset before the change, in the repeated hour fold 0 is the
\* first occurrence
utcoffset(key, naive, fold) ==
    IF key # "Europe/Berlin" THEN 0
    ELSE IF naive < GapStart THEN 60
    ELSE IF naive < GapStart + 60 THEN (IF fold = 0 THEN 60 ELSE 120)
    ELSE IF naive < FoldStart THEN 120
    ELSE IF naive < FoldStart + 60 THEN (IF fold = 0 THEN 120 ELSE 60)
    ELSE 60

\* the instant an aware datetime denotes
Instant(dt) == dt.naive - utcoffset(dt.tz, dt.naive, dt.fold)

\* datetime.astimezone(tz) of an instant
astimezone(utc, key) ==
    IF key # "Europe/Berlin" THEN [naive |-> utc, fold |-> 0, tz |-> key]
    ELSE IF utc < GapStart - 60 THEN [naive |-> utc + 60, fold |-> 0, tz |-> key]
    ELSE IF utc < FoldStart - 60 THEN [naive |-> utc + 120, fold |-> 0, tz |-> key]
    ELSE IF utc < FoldStart THEN [naive |-> utc + 60, fold |-> 1, tz |-> key]
    ELSE [naive |-> utc + 60, fold |-> 0, tz |-> key]

\* == of two aware datetimes that share one tzinfo object: tzinfo and fold are
\* ignored and the wall-clock times are compared
SameZoneEq(x, y) == x.naive = y.naive

\* aware datetime + timedelta: wall-clock arithmetic, the zone is kept and the
\* result has fold 0
TimedeltaAdd(dt, minutes) ==
    [naive |-> dt.naive + minutes, fold |-> 0, tz |-> dt.tz]

\* datetime.isoformat(): the wall-clock time followed by the UTC offset
isoformat(dt) ==
    [wall |-> dt.naive, offset |-> utcoffset(dt.tz, dt.naive, dt.fold)]

\* the instant an ISO-8601 text with offset denotes
IsoInstant(iso) == iso.wall - iso.offset

\* datetime.strptime(f"{date} {start}", "%Y-%m-%d %H:%M"): the naive local
\* time in minutes, or ValueError.  %m, %d, %H accept one digit.
strptime(date, start) ==
    LET day == CASE date = "2025-03-10" -> 0
                 [] date = "2025-3-10"  -> 0
                 [] date = "2025-03-11" -> 1
                 [] date = "2025-03-30" -> 20
                 [] date = "2025-10-26" -> 230
                 [] OTHER -> -1
        minute == CASE start = "09:00" -> 540
                    [] start = "9:00"  -> 540
                    [] start = "10:30" -> 630
                    [] start = "01:30" -> 90
                    [] start = "02:30" -> 150
                    [] OTHER -> -1
    IN  IF day < 0 \/ minute < 0
        THEN [exc |-> "ValueError", naive |-> 0]
        ELSE [exc |-> "", naive |-> day * 1440 + minute]

\* datetime.fromisoformat(s.replace('Z', '+00:00')): the instant, or ValueError
fromisoformat(s) ==
    CASE s = "2025-03-10T08:00:00Z"      -> [exc |-> "", utc |-> 480]
      [] s = "2025-03-10T09:00:00+01:00" -> [exc |-> "", utc |-> 480]
      [] s = "2025-03-11T09:30:00Z"      -> [exc |-> "", utc |-> 2010]
      [] s = "2025-10-26T00:30:00Z"      -> [exc |-> "", utc |-> 230 * 1440 + 30]
      [] s = "2025-10-26T01:30:00Z"      -> [exc |-> "", utc |-> 230 * 1440 + 90]
      [] OTHER -> [exc |-> "ValueError", utc |-> 0]

-----------------------------------------------------------------------------
(* The backend client.  An HTTP outcome is what the network does with one   *)
(* request:                                                                 *)
(*   [kind |-> "response", status_code, text, body]   a response arrived;   *)
(*        text is the raw body, body the JSON value it decodes to, or       *)
(*        Undecodable                                                       *)
(*   [kind |-> "transport"]                           no response at all    *)
(* A client call returns [exc |-> "" or the exception that leaves it,       *)
(* val |-> the returned value, io |-> the requests it put on the network].  *)

Undecodable == [t |-> "undecodable", v |-> NoneValue]

\* text[:n] of a response text.  A text that is not JSON is the sequence of
\* its characters; the JSON texts of the replies drawn below are shorter than
\* any n it is called with
Slice(text, n) ==
    IF "raw" \in DOMAIN text
    THEN [raw |-> SubSeq(text.raw, 1, IF Len(text.raw) < n THEN Len(text.raw) ELSE n)]
    ELSE text

Response(status_code, text, body) ==
    [kind |-> "response", status_code |-> status_code, text |-> text, body |-> body]

\* a 2xx response whose body is the JSON text of v
Ok(v) == Response(200, [json |-> v], v)

Transport == [kind |-> "transport"]

\* response.raise_for_status() raises HTTPError for 4xx and 5xx only
HTTPError(status_code) == 400 <= status_code /\ status_code < 600

\* response.json() succeeds
Decodes(o) == o.body.t # "undecodable"

\* the body of both request paths.  response.json() raises the HTTP library's
\* JSONDecodeError, which is a RequestException and a json.JSONDecodeError:
\* after a 2xx the handler for RequestException, listed first, catches it.
ClientResult(key, surface, method, endpoint, json_data, methods, o) ==
    IF ~KeySet(key)
    THEN [exc |-> "", val |-> JDict([error |-> <<client_not_configured>>]), io |-> <<>>]
    ELSE IF method \notin methods
    THEN [exc |-> "", val |-> JDict([error |-> <<"Unsupported HTTP method: ", method>>]),
          io |-> <<>>]
    ELSE LET req == <<[surface |-> surface, method |-> method, endpoint |-> endpoint,
                       json_data |-> json_data]>>
         IN  IF o.kind = "transport"
             THEN [exc |-> "",
                   val |-> JDict([error |-> <<"Request exception: ", "ConnectionError">>]),
                   io |-> req]
             ELSE IF HTTPError(o.status_code)
             THEN [exc |-> "",
                   val |-> JDict([error |-> <<"HTTP error: ", o.status_code,
                                             IF Decodes(o) THEN o.body ELSE o.text>>,
                                  status_code |-> o.status_code,
                                  raw_text |-> o.text]),
                   io |-> req]
             ELSE IF ~Decodes(o)
             THEN [exc |-> "",
                   val |-> JDict([error |-> <<"Request exception: ", "JSONDecodeError">>]),
                   io |-> req]
             ELSE [exc |-> "", val |-> o.body, io |-> req]

\* legacy path: key in the query string, GET/POST/DELETE
make_cal_request(key, method, endpoint, json_data, o) ==
    ClientResult(key, "v1", method, endpoint, json_data, {"GET", "POST", "DELETE"}, o)

\* bearer path: key in the Authorization header, GET/POST
make_cal_request_find(key, method, endpoint, json_data, o) ==
    ClientResult(key, "v2", method, endpoint, json_data, {"GET", "POST"}, o)

-----------------------------------------------------------------------------
(* The three tools.  Each returns [exc |-> "" or the exception that leaves  *)
(* the tool, ret |-> the returned text, http |-> the requests issued].      *)
(* A message is a tuple of the pieces the code formats it from; the         *)
(* message, error and raw-text values of the backend are tuples and records *)
(* too.                                                                     *)

Returns(text, http) == [exc |-> "", ret |-> text, http |-> http]

Raises(exc, http) == [exc |-> exc, ret |-> NoneValue, http |-> http]

Failure(message) == json_dumps([status |-> "failure", message |-> message])

invalid_date_message == <<"Invalid date or time format. Please use YYYY-MM-DD and HH:MM.">>

slot_unavailable == <<"The requested time slot is unavailable or conflicts with booking rules on Cal.com.">>

unexpected_format == <<"Unexpected response format from Cal.com API">>

\* the body the booking tool posts
booking_payload(a, localized_start, localized_end) ==
    [eventTypeId |-> a.eventTypeId,
     start |-> isoformat(localized_start),
     end |-> isoformat(localized_end),
     responses |-> a.responses,
     timeZone |-> a.timeZone,
     language |-> a.language,
     title |-> a.meeting_title,
     metadata |-> a.metadata,
     status |-> "ACCEPTED"]

\* variant: a conflict gets no message of its own
IsConflict_Never(booking_response) == FALSE

\* status_code == 409, where status_code is None for a response that is no dict
IsConflict(booking_response) ==
    /\ IsDict(booking_response)
    /\ Has(booking_response.v, "status_code")
    /\ booking_response.v["status_code"] = 409

book_cal_com_meeting_impl(key, a, post) ==
    IF ~KeySet(key) THEN Returns(Failure(<<tool_not_configured>>), <<>>)
    ELSE
    LET user_tz == ZoneInfo(a.timeZone)
        parsed  == strptime(a.date, a.start)
    IN
    IF user_tz.exc = "ValueError" THEN Returns(Failure(invalid_date_message), <<>>)
    ELSE IF user_tz.exc # "" THEN Raises(user_tz.exc, <<>>)
    ELSE IF parsed.exc = "ValueError" THEN Returns(Failure(invalid_date_message), <<>>)
    ELSE
    LET localized_start == [naive |-> parsed.naive, fold |-> 0, tz |-> user_tz.key]
        localized_end == TimedeltaAdd(localized_start, a.duration_minutes)
        r == make_cal_request(key, "POST", "/bookings",
                              booking_payload(a, localized_start, localized_end), post)
        booking_response == r.val
    IN
    IF Truthy(booking_response) /\ ~In("error", booking_response)
       /\ ~IsDict(booking_response)
    THEN Raises("AttributeError", r.io)      \* list.get
    ELSE IF Truthy(booking_response) /\ ~In("error", booking_response)
            /\ Get(booking_response.v, "id", None) \notin {None, ""}
    THEN Returns(json_dumps([status |-> "success",
                             message |-> <<"Meeting successfully booked on Cal.com.">>,
                             meeting_details |->
                                [cal_com_booking_id |-> booking_response.v["id"],
                                 title |-> Get(booking_response.v, "title", None),
                                 eventTypeId |-> a.eventTypeId,
                                 requested_timeZone |-> a.timeZone,
                                 duration_minutes |-> a.duration_minutes]]),
                 r.io)
    ELSE
    LET default == <<"Unknown error during booking.">>
        base == IF Truthy(booking_response) /\ IsDict(booking_response)
                THEN Get(booking_response.v, "message",
                         Get(booking_response.v, "error", default))
                ELSE default
        error_msg == IF Truthy(booking_response) /\ IsDict(booking_response)
                        /\ Has(booking_response.v, "raw_text")
                     THEN <<base, " (Details: ", Slice(booking_response.v["raw_text"], 200), ")">>
                     ELSE base
    IN  Returns(Failure(<<"Failed to book meeting on Cal.com: ",
                          IF IsConflict(booking_response) THEN slot_unavailable
                          ELSE error_msg>>),
                r.io)

show_cal_com_booked_meetings_impl(key, a, get) ==
    IF ~KeySet(key) THEN Returns(Failure(<<tool_not_configured>>), <<>>)
    ELSE
    LET r == make_cal_request_find(key, "GET", "/bookings", NoneValue, get)
        bookings_data == r.val
    IN
    IF Truthy(bookings_data) /\ ~In("error", bookings_data) THEN
        IF IsDict(bookings_data) /\ Get(bookings_data.v, "status", None) = "success" THEN
            LET data == Get(bookings_data.v, "data", JDict(<<>>))
            IN  IF IsDict(data) /\ Has(data.v, "bookings") THEN
                    IF ~Truthy(data.v["bookings"])
                    THEN Returns(json_dumps([status |-> "success",
                                             message |-> <<"No meetings found for ", a.attendeeEmail, ".">>,
                                             events |-> JList(<<>>)]),
                                 r.io)
                    ELSE Returns(json_dumps([status |-> "success",
                                             message |-> <<"Scheduled Cal.com Events for ", a.attendeeEmail, ":">>,
                                             events |-> data.v["bookings"]]),
                                 r.io)
                ELSE Returns(NoneValue, r.io)   \* falls off the end of the function
        ELSE Returns(Failure(<<"Failed to retrieve meetings from Cal.com: ",
                               unexpected_format>>),
                     r.io)
    ELSE
    LET default == <<"Unknown error retrieving meetings.">>
        e0 == IF Truthy(bookings_data) /\ IsDict(bookings_data)
              THEN Get(bookings_data.v, "error", default) ELSE default
        e1 == IF Truthy(bookings_data) /\ IsDict(bookings_data) /\ Has(bookings_data.v, "raw_text")
              THEN <<e0, " (Details: ", Slice(bookings_data.v["raw_text"], 200), ")">>
              ELSE e0
        e2 == IF Truthy(bookings_data) /\ IsDict(bookings_data) /\ Has(bookings_data.v, "status_code")
              THEN <<e1, " (Status Code: ", bookings_data.v["status_code"], ")">> ELSE e1
    IN  Returns(Failure(<<"Failed to retrieve meetings from Cal.com: ", e2>>), r.io)

\* the scan of the booking list in the cancellation tool: the position of the
\* first booking that either matches the target or cannot be read
ScanStop(bookings, user_tz, target_time) ==
    LET Unreadable(b) == ~IsDict(b) \/ ~Has(b.v, "startTime")
                         \/ fromisoformat(b.v["startTime"]).exc # ""
        Matches(b) == SameZoneEq(astimezone(fromisoformat(b.v["startTime"]).utc, user_tz),
                                 target_time)
        stops == { i \in 1..Len(bookings) :
                     Unreadable(bookings[i]) \/ Matches(bookings[i]) }
    IN  IF stops = {} THEN [at |-> 0, exc |-> ""]
        ELSE LET i == CHOOSE i \in stops : \A j \in stops : i <= j
             IN  [at |-> i,
                  exc |-> IF ~IsDict(bookings[i]) THEN "TypeError"
                          ELSE IF ~Has(bookings[i].v, "startTime") THEN "KeyError"
                          ELSE fromisoformat(bookings[i].v["startTime"]).exc]

cancel_cal_com_meeting_impl(key, a, get, delete) ==
    IF ~KeySet(key) THEN Returns(Failure(<<tool_not_configured>>), <<>>)
    ELSE
    LET Caught(exc, http) ==
            Returns(Failure(<<"Error processing cancellation request: ", exc>>), http)
        f == make_cal_request_find(key, "GET", "/bookings", NoneValue, get)
        bookings_data == f.val
        user_tz == ZoneInfo(a.timeZone)
        parsed == strptime(a.date, a.start)
        target_time == [naive |-> parsed.naive, fold |-> 0, tz |-> user_tz.key]
        listed == IsDict(bookings_data)
                  /\ Get(bookings_data.v, "status", None) = "success"
                  /\ IsDict(Get(bookings_data.v, "data", JDict(<<>>)))
                  /\ Has(Get(bookings_data.v, "data", JDict(<<>>)).v, "bookings")
        bookings == bookings_data.v["data"].v["bookings"]
    IN
    IF ~Truthy(bookings_data) \/ In("error", bookings_data) THEN
        Returns(Failure(<<"Failed to retrieve bookings to find the meeting to cancel.">>), f.io)
    ELSE IF user_tz.exc # "" THEN Caught(user_tz.exc, f.io)
    ELSE IF parsed.exc # "" THEN Caught(parsed.exc, f.io)
    ELSE IF listed /\ bookings.t # "list" /\ ~(IsDict(bookings) /\ ~Truthy(bookings))
    THEN Caught("TypeError", f.io)       \* not iterable, or iterates over strings
    ELSE
    LET stop == IF listed /\ bookings.t = "list"
                THEN ScanStop(bookings.v.items, user_tz.key, target_time)
                ELSE [at |-> 0, exc |-> ""]
    IN
    IF stop.exc # "" THEN Caught(stop.exc, f.io)
    ELSE IF stop.at = 0 THEN
        Returns(Failure(<<"No meeting found for ", a.attendeeEmail, " on ", a.date,
                          " at ", a.start, " ", a.timeZone, ".">>), f.io)
    ELSE
    LET target_booking == bookings.v.items[stop.at]
    IN
    IF ~Has(target_booking.v, "id") THEN Caught("KeyError", f.io)
    ELSE
    LET d == make_cal_request(key, "DELETE",
                              <<"/bookings/", target_booking.v["id"]>>,
                              [reason |-> Get(a, "reason", "")], delete)
        cancel_response == d.val
        http == f.io \o d.io
    IN
    IF Truthy(cancel_response) /\ ~In("error", cancel_response) THEN
        IF ~Has(target_booking.v, "title") THEN Caught("KeyError", http)
        ELSE Returns(json_dumps([status |-> "success",
                                 message |-> <<"Successfully cancelled meeting '",
                                               target_booking.v["title"],
                                               "' scheduled for ", a.date, " at ",
                                               a.start, " ", a.timeZone, ".">>,
                                 booking_details |-> target_booking.v]),
                     http)
    ELSE
    LET default == <<"Unknown error during cancellation.">>
        error_msg == IF Truthy(cancel_response) /\ IsDict(cancel_response)
                     THEN Get(cancel_response.v, "message",
                              Get(cancel_response.v, "error", default))
                     ELSE default
    IN  Returns(Failure(<<"Failed to cancel meeting: ", error_msg>>), http)

-----------------------------------------------------------------------------
(* What the environment supplies: user texts, completion responses, HTTP    *)
(* outcomes.  One value of each kind is the default; every other value      *)
(* counts against MaxVaried.                                                *)

DefaultInput == <<"h","i">>

UserInputs == { DefaultInput,
                <<"B","o","o","k">>,
                <<"S","H","O","W">>,
                <<"M","e","e","t","i","n","g","s">>,
                <<"r","e","S","c","h","e","d","u","l","e">>,
                <<"C","A","N","C","E","L">>,
                <<"C","a","l",".","C","o","m">>,
                <<"c","a","l","x","c","o","m">>,
                <<"b","o","k">> }

\* tool_call.function.arguments: a text that is a JSON value or is not
JsonText(value) == [kind |-> "json", value |-> value]

InvalidJson == [kind |-> "invalid", value |-> JNull]

\* json.loads
json_loads(text) ==
    IF text.kind = "json" THEN [exc |-> "", value |-> text.value]
    ELSE [exc |-> "JSONDecodeError", value |-> JNull]

BookArgs == [eventTypeId |-> 7, responses |-> "responses", meeting_title |-> "Sync",
             date |-> "2025-03-10", start |-> "09:00", timeZone |-> "Europe/Berlin",
             duration_minutes |-> 30, language |-> "English", metadata |-> "metadata"]

ShowArgs == [attendeeEmail |-> "alice@example.com"]

CancelArgs == [attendeeEmail |-> "alice@example.com", date |-> "2025-03-10",
               start |-> "09:00", timeZone |-> "Europe/Berlin", reason |-> "busy"]

CallIdNames == <<"call_1", "call_2", "call_3", "call_4">>

ToolCallIds == { CallIdNames[i] : i \in 1..MaxCalls }

ToolCallShapes ==
    { [name |-> "show_cal_com_booked_meetings", arguments |-> JsonText(JDict(ShowArgs))],
      [name |-> "show_cal_com_booked_meetings", arguments |-> InvalidJson],
      [name |-> "show_cal_com_booked_meetings", arguments |-> JsonText(JDict(<<>>))],
      [name |-> "show_cal_com_booked_meetings",
       arguments |-> JsonText(JDict([attendeeEmail |-> "alice@example.com", date |-> "2025-03-10"]))],
      [name |-> "book_cal_com_meeting", arguments |-> JsonText(JDict(BookArgs))],
      [name |-> "book_cal_com_meeting",
       arguments |-> JsonText(JDict([BookArgs EXCEPT !.timeZone = "Mars/Phobos"]))],
      [name |-> "book_cal_com_meeting",
       arguments |-> JsonText(JDict([BookArgs EXCEPT !.date = "10/03/2025"]))],
      [name |-> "cancel_cal_com_meeting", arguments |-> JsonText(JDict(CancelArgs))],
      [name |-> "cancel_cal_com_meeting",
       arguments |-> JsonText(JDict([CancelArgs EXCEPT !.timeZone = "Mars/Phobos"]))],
      [name |-> "cancel_cal_com_meeting",
       arguments |-> JsonText(JDict([CancelArgs EXCEPT !.start = "10:30"]))],
      [name |-> "send_email", arguments |-> JsonText(JDict(<<>>))],
      [name |-> "send_email", arguments |-> InvalidJson] }

ToolCalls ==
    { [id |-> i, name |-> sh.name, arguments |-> sh.arguments] :
        i \in ToolCallIds, sh \in ToolCallShapes }

\* the default call at position i of a response
DefaultCall(i) == [id |-> CallIdNames[i], name |-> "show_cal_com_booked_meetings",
                   arguments |-> JsonText(JDict(ShowArgs))]

Booking1 == JDict([id |-> "42", title |-> "Sync", startTime |-> "2025-03-10T08:00:00Z"])

\* the success envelope of the list endpoint around a booking list
Listing(bookings) ==
    JDict([status |-> "success", data |-> JDict([bookings |-> JList(bookings)])])

DefaultPost == Ok(JDict([id |-> "abc123", title |-> "Sync"]))

DefaultGet == Ok(Listing(<<Booking1>>))

DefaultDelete == Ok(JDict([status |-> "OK"]))

PostOutcomes == { DefaultPost,
                  Ok(JDict([message |-> <<"accepted">>])),
                  Response(409, [raw |-> <<"s", "l", "o", "t", " ", "t", "a", "k", "e", "n">>], Undecodable),
                  Transport }

GetOutcomes == { DefaultGet,
                 Ok(Listing(<<>>)),
                 Ok(JDict([status |-> "error"])),
                 Response(500, [raw |-> <<"o", "o", "p", "s">>], Undecodable) }

DeleteOutcomes == { DefaultDelete,
                    Ok(JDict(<<>>)),
                    Response(404, [raw |-> <<"g", "o", "n", "e">>], Undecodable) }

\* the number of choices in a completion response that are not the default
ResponseCost(calls) ==
    (Len(calls) - 1)
    + Cardinality({ i \in 1..Len(calls) : calls[i].id # DefaultCall(i).id })
    + Cardinality({ i \in 1..Len(calls) :
                      \/ calls[i].name # DefaultCall(i).name
                      \/ calls[i].arguments # DefaultCall(i).arguments })

\* a user text other than the default, and every chat call after the first
InputCost(text, history) ==
    (IF text = DefaultInput THEN 0 ELSE 1) + (IF Len(history) > 1 THEN 1 ELSE 0)

\* HTTP outcomes for one tool call: those of requests the call does not make
\* stay at the default
OutcomeCost(o, http) ==
    LET used == { http[i].method : i \in 1..Len(http) }
    IN  IF \/ (o.post # DefaultPost /\ "POST" \notin used)
           \/ (o.get # DefaultGet /\ "GET" \notin used)
           \/ (o.delete # DefaultDelete /\ "DELETE" \notin used)
        THEN MaxVaried + 1
        ELSE (IF o.post # DefaultPost THEN 1 ELSE 0)
             + (IF o.get # DefaultGet THEN 1 ELSE 0)
             + (IF o.delete # DefaultDelete THEN 1 ELSE 0)

-----------------------------------------------------------------------------
(* chat: dispatch of one requested tool call *)

BookParams == {"eventTypeId", "responses", "meeting_title", "date", "start",
               "timeZone", "duration_minutes", "language", "metadata"}

ShowParams == {"attendeeEmail"}

CancelParams == {"attendeeEmail", "date", "start", "timeZone", "reason"}

\* f(**function_args): TypeError unless the arguments are a mapping that names
\* every parameter without a default and no other name
BindsTo(function_args, params, optional) ==
    /\ IsDict(function_args)
    /\ (params \ optional) \subseteq DOMAIN function_args.v
    /\ DOMAIN function_args.v \subseteq params

\* the body of the for loop up to function_response_content
Dispatch(key, tool_call, o) ==
    LET loaded == json_loads(tool_call.arguments)
        function_args == loaded.value
        function_name == tool_call.name
    IN
    IF loaded.exc # "" THEN Raises(loaded.exc, <<>>)
    ELSE IF function_name = "book_cal_com_meeting" THEN
        IF BindsTo(function_args, BookParams, {})
        THEN book_cal_com_meeting_impl(key, function_args.v, o.post)
        ELSE Raises("TypeError", <<>>)
    ELSE IF function_name = "show_cal_com_booked_meetings" THEN
        IF BindsTo(function_args, ShowParams, {})
        THEN show_cal_com_booked_meetings_impl(key, function_args.v, o.get)
        ELSE Raises("TypeError", <<>>)
    ELSE IF function_name = "cancel_cal_com_meeting" THEN
        IF BindsTo(function_args, CancelParams, {"reason"})
        THEN cancel_cal_com_meeting_impl(key, function_args.v, o.get, o.delete)
        ELSE Raises("TypeError", <<>>)
    ELSE Returns(json_dumps([status |-> "error",
                             message |-> <<"Unknown function: ", function_name>>]),
                 <<>>)

-----------------------------------------------------------------------------
(* Messages of the history *)

UserMessage(text) ==
    [role |-> "user", content |-> Chars(text), tool_calls |-> <<>>,
     tool_call_id |-> None, name |-> None]

AssistantMessage(content, tool_calls) ==
    [role |-> "assistant", content |-> content, tool_calls |-> tool_calls,
     tool_call_id |-> None, name |-> None]

\* variant: the tool message refers to the function name, not the invocation
ToolMessage_ByName(tool_call, content) ==
    [role |-> "tool", content |-> content, tool_calls |-> <<>>,
     tool_call_id |-> tool_call.name, name |-> tool_call.name]

ToolMessage(tool_call, content) ==
    [role |-> "tool", content |-> content, tool_calls |-> <<>>,
     tool_call_id |-> tool_call.id, name |-> tool_call.name]

Returned(value) == [kind |-> "return", value |-> value]

\* no operation has been invoked on its own
NoCall == [op |-> None, args |-> NoneValue, net |-> <<>>, exc |-> "", ret |-> NoneValue,
           http |-> <<>>]

Raised(exc) == [kind |-> "raise", value |-> Text(exc)]

-----------------------------------------------------------------------------
(* The state machine *)

Init ==
    /\ cal_api_key \in {None, "", "cal_live_k"}
    /\ messages = <<system_prompt>>
    /\ pc = "idle"
    /\ user_input = <<>>
    /\ turn_count = 0
    /\ pending = <<>>
    /\ idx = 0
    /\ result = [kind |-> "none", value |-> NoneValue]
    /\ requests = 0
    /\ http_log = <<>>
    /\ varied = 0
    /\ call = NoCall
    /\ served = <<>>

\* the one session of the console front end
Console == "console"

\* variant: each chat call restarts the history from the system prompt
ChatEnter_Restart(text) ==
    /\ pc = "idle"
    /\ Len(messages) <= MaxHistory
    /\ varied + InputCost(text, messages) <= MaxVaried
    /\ varied' = varied + InputCost(text, messages)
    /\ user_input' = text
    /\ messages' = <<system_prompt, UserMessage(text)>>
    /\ turn_count' = 0
    /\ pc' = "while"
    /\ result' = [kind |-> "running", value |-> NoneValue]
    /\ requests' = 0
    /\ http_log' = <<>>
    /\ UNCHANGED <<call, cal_api_key, pending, idx>>

\* chat is called: the user message is appended, the loop is about to start
ChatEnter(text) ==
    /\ pc = "idle"
    /\ Len(messages) <= MaxHistory
    /\ varied + InputCost(text, messages) <= MaxVaried
    /\ varied' = varied + InputCost(text, messages)
    /\ user_input' = text
    /\ messages' = Append(messages, UserMessage(text))
    /\ turn_count' = 0
    /\ pc' = "while"
    /\ result' = [kind |-> "running", value |-> NoneValue]
    /\ requests' = 0
    /\ http_log' = <<>>
    /\ UNCHANGED <<call, cal_api_key, pending, idx>>

\* the loop condition fails: the fallback apology is returned
LoopCap ==
    /\ pc = "while"
    /\ ~(turn_count < MAX_TURNS)
    /\ result' = Returned(fallback_message)
    /\ pc' = "idle"
    /\ UNCHANGED <<served, call, cal_api_key, messages, user_input, turn_count, pending, idx,
                   requests, http_log, varied>>

\* a round starts and the guard short-circuits the turn
LoopNoKey ==
    /\ pc = "while"
    /\ turn_count < MAX_TURNS
    /\ NoKeyGuard(cal_api_key, user_input)
    /\ turn_count' = turn_count + 1
    /\ messages' = Append(messages, AssistantMessage(no_key_message, <<>>))
    /\ result' = Returned(no_key_message)
    /\ pc' = "idle"
    /\ UNCHANGED <<served, call, cal_api_key, user_input, pending, idx, requests, http_log, varied>>

\* a round starts and the guard lets it through to the completion request
LoopRound ==
    /\ pc = "while"
    /\ turn_count < MAX_TURNS
    /\ ~NoKeyGuard(cal_api_key, user_input)
    /\ turn_count' = turn_count + 1
    /\ pc' = "create"
    /\ UNCHANGED <<served, call, cal_api_key, messages, user_input, pending, idx, result,
                   requests, http_log, varied>>

\* the completion request raises
CompletionFails ==
    /\ pc = "create"
    /\ requests' = requests + 1
    /\ messages' = Append(messages, AssistantMessage(service_error_appended, <<>>))
    /\ result' = Returned(service_error_returned)
    /\ pc' = "idle"
    /\ UNCHANGED <<served, call, cal_api_key, user_input, turn_count, pending, idx, http_log, varied>>

\* the completion response carries no tool calls
CompletionText(content) ==
    /\ pc = "create"
    /\ requests' = requests + 1
    /\ messages' = Append(messages, AssistantMessage(content, <<>>))
    /\ result' = Returned(content)
    /\ pc' = "idle"
    /\ UNCHANGED <<served, call, cal_api_key, user_input, turn_count, pending, idx, http_log, varied>>

\* the completion response carries tool calls
CompletionToolCalls(tool_calls) ==
    /\ pc = "create"
    /\ varied + ResponseCost(tool_calls) <= MaxVaried
    /\ varied' = varied + ResponseCost(tool_calls)
    /\ requests' = requests + 1
    /\ messages' = Append(messages, AssistantMessage(NoneValue, tool_calls))
    /\ pending' = tool_calls
    /\ idx' = 1
    /\ pc' = "for"
    /\ UNCHANGED <<served, call, cal_api_key, user_input, turn_count, result, http_log>>

\* one iteration of the for loop returns a tool result
DispatchReturns(o) ==
    /\ pc = "for"
    /\ LET r == Dispatch(cal_api_key, pending[idx], o)
       IN  /\ r.exc = ""
           /\ varied + OutcomeCost(o, r.http) <= MaxVaried
           /\ varied' = varied + OutcomeCost(o, r.http)
           /\ http_log' = http_log \o r.http
           /\ messages' = Append(messages, ToolMessage(pending[idx], r.ret))
    /\ idx' = idx + 1
    /\ pc' = IF idx < Len(pending) THEN "for" ELSE "while"
    /\ UNCHANGED <<served, call, cal_api_key, user_input, turn_count, pending, result, requests>>

\* one iteration of the for loop raises: the exception leaves chat
DispatchRaises(o) ==
    /\ pc = "for"
    /\ LET r == Dispatch(cal_api_key, pending[idx], o)
       IN  /\ r.exc # ""
           /\ varied + OutcomeCost(o, r.http) <= MaxVaried
           /\ varied' = varied + OutcomeCost(o, r.http)
           /\ http_log' = http_log \o r.http
           /\ result' = Raised(r.exc)
    /\ pc' = "idle"
    /\ UNCHANGED <<served, call, cal_api_key, messages, user_input, turn_count, pending, idx, requests>>

Outcomes == [post : PostOutcomes, get : GetOutcomes, delete : DeleteOutcomes]

Responses ==
    { r \in UNION { [1..n -> ToolCalls] : n \in 1..MaxCalls } :
        ResponseCost(r) <= MaxVaried }

Next ==
    \/ \E text \in UserInputs : ChatEnter(text) /\ served' = Append(served, Console)
    \/ LoopCap
    \/ LoopNoKey
    \/ LoopRound
    \/ CompletionFails
    \/ CompletionText(Text("Here is what I found."))
    \/ \E tool_calls \in Responses : CompletionToolCalls(tool_calls)
    \/ \E o \in Outcomes : DispatchReturns(o)
    \/ \E o \in Outcomes : DispatchRaises(o)

Spec == Init /\ [][Next]_vars

-----------------------------------------------------------------------------
(* The tools and the client invoked on their own: a fresh agent, one        *)
(* operation, with the arguments and the backend replies drawn from the     *)
(* sets below.                                                              *)

TimeZones == {"Europe/Berlin", "UTC", "Mars/Phobos", "../UTC"}

Dates == {"2025-03-10", "2025-3-10", "2025-03-30", "2025-10-26", "10/03/2025", "2025-02-30"}

Times == {"09:00", "01:30", "02:30", "25:00"}

Durations == {30, 120}

Emails == {"alice@example.com"}

BookInputs ==
    { [BookArgs EXCEPT !.timeZone = tz, !.date = d, !.start = t, !.duration_minutes = m] :
        tz \in TimeZones, d \in Dates, t \in Times, m \in Durations }

CancelInputs ==
    { [CancelArgs EXCEPT !.timeZone = tz, !.date = d, !.start = t] :
        tz \in TimeZones, d \in {"2025-03-10", "2025-10-26", "10/03/2025"}, t \in Times }
    \cup { [attendeeEmail |-> "alice@example.com", date |-> "2025-03-10",
            start |-> "09:00", timeZone |-> "Europe/Berlin"] }

\* bookings the list endpoint may return
BookingLater == JDict([id |-> "43", title |-> "Review", startTime |-> "2025-03-11T09:30:00Z"])

BookingFirstHour == JDict([id |-> "44", title |-> "Early", startTime |-> "2025-10-26T00:30:00Z"])

BookingSecondHour == JDict([id |-> "45", title |-> "Late", startTime |-> "2025-10-26T01:30:00Z"])

BookingNoStart == JDict([id |-> "46", title |-> "Draft"])

BookingBadStart == JDict([id |-> "47", title |-> "Odd", startTime |-> "tomorrow"])

BookingNoId == JDict([title |-> "Sync", startTime |-> "2025-03-10T08:00:00Z"])

BookingLists == { <<>>, <<Booking1>>, <<BookingLater, Booking1>>, <<Booking1, BookingNoStart>>,
                  <<BookingSecondHour>>, <<BookingFirstHour, BookingSecondHour>>,
                  <<BookingNoStart>>, <<BookingBadStart, Booking1>>, <<BookingNoId>> }

\* replies that are not the success envelope of the list endpoint
OffFormatBodies == { JDict([status |-> "error"]),
                     JDict([data |-> JDict([bookings |-> JList(<<Booking1>>)])]),
                     JDict([status |-> "success"]),
                     JDict([status |-> "success", data |-> JList(<<Booking1>>)]),
                     JDict([status |-> "success", data |-> JDict([entries |-> JList(<<>>)])]),
                     JList(<<Booking1>>) }

\* replies every endpoint may give instead of its own
FailedReplies == { Response(500, [raw |-> <<"o", "o", "p", "s">>], Undecodable),
                   Response(404, [json |-> JDict([message |-> <<"not found">>])],
                            JDict([message |-> <<"not found">>])),
                   Response(200, [raw |-> <<"<", "h", "t", "m", "l", ">">>], Undecodable),
                   Transport }

GetReplies ==
    { Ok(Listing(l)) : l \in BookingLists } \cup { Ok(b) : b \in OffFormatBodies }
    \cup { Ok(JNull), Ok(JDict([error |-> <<"denied">>])) } \cup FailedReplies

\* response texts that are not JSON, of the two greatest lengths
LongTexts == { [raw |-> [i \in 1..n |-> "x"]] : n \in {MaxRaw - 1, MaxRaw} }

PostReplies ==
    { Ok(b) : b \in { JDict([id |-> "abc123", title |-> "Sync"]),
                      JDict([id |-> "abc123", error |-> <<"late">>]),
                      JDict([message |-> <<"accepted">>]),
                      JDict([error |-> <<"bad input">>]),
                      JDict([message |-> <<"rejected">>, error |-> <<"bad input">>]),
                      JDict([title |-> "Sync"]),
                      JDict(<<>>),
                      JList(<<JDict([id |-> "abc123"])>>),
                      JNull } }
    \cup { Response(409, [raw |-> <<"s", "l", "o", "t", " ", "t", "a", "k", "e", "n">>], Undecodable),
           Response(409, [json |-> JDict([message |-> <<"no_available_users">>])],
                    JDict([message |-> <<"no_available_users">>])),
           Response(300, [json |-> JDict([id |-> "abc123"])], JDict([id |-> "abc123"])) }
    \cup { Response(status_code, text, Undecodable) :
               status_code \in {409, 500}, text \in LongTexts }
    \cup FailedReplies

DeleteReplies ==
    { DefaultDelete, Ok(JDict(<<>>)), Ok(JDict([error |-> <<"locked">>])) } \cup FailedReplies

\* str.upper() on the method names the client is called with
Upper(method) ==
    CASE method = "get" -> "GET" [] method = "post" -> "POST"
      [] method = "delete" -> "DELETE" [] OTHER -> method

Methods == {"GET", "POST", "DELETE", "PUT", "delete"}

\* how an operation invoked on its own ended
Ended(op, args, net, r) ==
    [op |-> op, args |-> args, net |-> net, exc |-> r.exc, ret |-> r.ret, http |-> r.http]

InvokeBook(a, post) ==
    /\ call' = Ended("book_cal_com_meeting", a, <<post>>,
                     book_cal_com_meeting_impl(cal_api_key, a, post))
    /\ UNCHANGED <<served, cal_api_key, messages, pc, user_input, turn_count, pending, idx,
                   result, requests, http_log, varied>>

InvokeShow(a, get) ==
    /\ call' = Ended("show_cal_com_booked_meetings", a, <<get>>,
                     show_cal_com_booked_meetings_impl(cal_api_key, a, get))
    /\ UNCHANGED <<served, cal_api_key, messages, pc, user_input, turn_count, pending, idx,
                   result, requests, http_log, varied>>

InvokeCancel(a, get, delete) ==
    /\ call' = Ended("cancel_cal_com_meeting", a, <<get, delete>>,
                     cancel_cal_com_meeting_impl(cal_api_key, a, get, delete))
    /\ UNCHANGED <<served, cal_api_key, messages, pc, user_input, turn_count, pending, idx,
                   result, requests, http_log, varied>>

\* one of the two request paths is called directly
InvokeClient(path, method, o) ==
    /\ LET r == IF path = "_make_cal_request"
                THEN make_cal_request(cal_api_key, Upper(method), "/bookings", NoneValue, o)
                ELSE make_cal_request_find(cal_api_key, Upper(method), "/bookings", NoneValue, o)
       IN  call' = [op |-> path, args |-> [method |-> method], net |-> <<o>>,
                    exc |-> r.exc, ret |-> r.val, http |-> r.io]
    /\ UNCHANGED <<served, cal_api_key, messages, pc, user_input, turn_count, pending, idx,
                   result, requests, http_log, varied>>

\* each disjunct starts from a fresh agent, on which nothing was invoked yet
ToolNext ==
    \/ call = NoCall /\ \E a \in BookInputs, post \in PostReplies : InvokeBook(a, post)
    \/ call = NoCall /\ \E a \in [attendeeEmail : Emails], get \in GetReplies :
          InvokeShow(a, get)
    \/ call = NoCall /\ \E a \in CancelInputs, get \in GetReplies, delete \in DeleteReplies :
          InvokeCancel(a, get, delete)
    \/ call = NoCall /\ \E path \in {"_make_cal_request", "_make_cal_request_find"},
                            method \in Methods, o \in PostReplies \cup GetReplies :
          InvokeClient(path, method, o)

ToolSpec == Init /\ [][ToolNext]_vars

-----------------------------------------------------------------------------
(* The chat front end: the module creates one agent when it is loaded, and  *)
(* the message handler of every chat session calls chat on that agent.      *)
(* chat is a blocking call without an await in it, so the handlers of two   *)
(* sessions interleave turn by turn and never inside a turn.                *)

Sessions == {"s1", "s2"}

\* a session sends a message: the handler passes its text to chat
OnMessage(session, text) ==
    /\ ChatEnter(text)
    /\ served' = Append(served, session)

\* what the handler sends once chat has returned, and to which session; an
\* exception of chat leaves the handler and nothing is sent
Reply ==
    IF pc = "idle" /\ result.kind = "return"
    THEN <<[to |-> served[Len(served)], content |-> result.value]>>
    ELSE <<>>

AppNext ==
    \/ \E session \in Sessions, text \in UserInputs : OnMessage(session, text)
    \/ LoopCap
    \/ LoopNoKey
    \/ LoopRound
    \/ CompletionFails
    \/ CompletionText(Text("Here is what I found."))
    \/ \E tool_calls \in Responses : CompletionToolCalls(tool_calls)
    \/ \E o \in Outcomes : DispatchReturns(o)
    \/ \E o \in Outcomes : DispatchRaises(o)

AppSpec == Init /\ [][AppNext]_vars

-----------------------------------------------------------------------------
(* Vocabulary of the properties *)

Last(s) == s[Len(s)]

\* the chat call has ended (by a return or by an exception)
TurnOver == pc = "idle" /\ result.kind \in {"return", "raise"}

\* position of the user message of the current (or last) chat call
TurnStart ==
    CHOOSE i \in 1..Len(messages) :
        /\ messages[i].role = "user"
        /\ \A j \in (i + 1)..Len(messages) : messages[j].role # "user"

\* positions of the completion responses with tool calls of the current turn
ToolRounds ==
    { i \in 1..Len(messages) :
        /\ i > TurnStart
        /\ messages[i].role = "assistant"
        /\ messages[i].tool_calls # <<>> }

KnownTools == {"book_cal_com_meeting", "show_cal_com_booked_meetings",
               "cancel_cal_com_meeting"}

-----------------------------------------------------------------------------
(* C1: a chat call requests at most 7 completions, and a call whose first 7  *)
(* completion responses all carry tool calls returns the fallback apology    *)
(* after the 7th round, without an 8th request.                              *)
C1_CapThenFallback ==
    /\ requests <= MAX_TURNS
    /\ (TurnOver /\ Cardinality(ToolRounds) = MAX_TURNS)
          => result = Returned(fallback_message)

(* C2: a chat call always ends by returning a reply, never by propagating   *)
(* an exception, whatever the completion service and the backend answer.    *)
C2_ChatNeverRaises == result.kind # "raise"

(* C3: every chat call ends in one of four outcomes: the text reply, the    *)
(* not-configured reply, the service-error apology or the fallback apology; *)
(* the next user input is taken only after that.                            *)
C3_FourOutcomes ==
    /\ pc = "idle" /\ Len(messages) > 1 =>
          /\ result.kind = "return"
          /\ \/ result.value \in {no_key_message, service_error_returned, fallback_message}
             \/ (Last(messages).role = "assistant" /\ Last(messages).tool_calls = <<>>
                 /\ result.value = Last(messages).content)
    /\ pc # "idle" => result.kind = "running"

(* C4: when a completion request fails the turn ends at once, with no       *)
(* further completion or backend call, with exactly one assistant apology   *)
(* appended, and the text chat returns is that appended message.            *)
C4_ServiceFailureApology ==
    (TurnOver /\ result = Returned(service_error_returned)) =>
        /\ Last(messages).role = "assistant"
        /\ Last(messages).tool_calls = <<>>
        /\ Last(messages).content = result.value
        /\ \A i \in (TurnStart + 1)..(Len(messages) - 1) :
               messages[i].role = "tool" \/ messages[i].tool_calls # <<>>

-----------------------------------------------------------------------------
\* user texts that contain an intent keyword in some letter case
KeywordInputs == { <<"B","o","o","k">>,
                   <<"S","H","O","W">>,
                   <<"M","e","e","t","i","n","g","s">>,
                   <<"r","e","S","c","h","e","d","u","l","e">>,
                   <<"C","A","N","C","E","L">>,
                   <<"C","a","l",".","C","o","m">> }

(* C5: with no backend credential and a user text containing an intent      *)
(* keyword in any letter case, chat makes no completion request and no      *)
(* backend call, appends the not-configured reply as an assistant message   *)
(* and returns it; no completion request is reached past the guard.         *)
C5_NoKeyShortCircuit ==
    (cal_api_key \in {None, ""} /\ user_input \in KeywordInputs) =>
        /\ requests = 0
        /\ http_log = <<>>
        /\ pc \in {"while", "idle"}
        /\ pc = "idle" =>
              /\ result = Returned(no_key_message)
              /\ Last(messages) = AssistantMessage(no_key_message, <<>>)
              /\ messages[Len(messages) - 1] = UserMessage(user_input)

C5_Witness ==
    /\ pc = "idle"
    /\ cal_api_key = ""
    /\ user_input = <<"C","a","l",".","C","o","m">>
    /\ result = Returned(no_key_message)
    /\ Last(messages).role = "assistant"

(* C6: a completion response without tool calls is appended and its text is *)
(* returned as the final answer, with nothing dispatched after it; a        *)
(* response with tool calls never ends the turn in its round: all its calls *)
(* are dispatched and the loop goes back to the next round or the cap.      *)
C6_TextEndsToolCallsContinue ==
    [][ /\ (pc = "create" /\ pc' = "idle" /\ Last(messages').content # service_error_appended)
            => /\ Last(messages').tool_calls = <<>>
               /\ result' = Returned(Last(messages').content)
               /\ requests' = requests + 1
               /\ http_log' = http_log
        /\ (pc = "create" /\ pc' = "for")
            => /\ Last(messages').tool_calls # <<>>
               /\ result'.kind = "running"
        /\ (pc = "for")
            => /\ pc' \in {"for", "while"}
               /\ pc' = "while" <=> idx' > Len(pending)
               /\ Len(messages') = Len(messages) + 1 ]_vars

(* C7: the first message of the history is always the system instruction,   *)
(* and the history only grows: every step keeps every earlier message at    *)
(* its position, a chat call appends exactly one user message, and it does  *)
(* so before any completion request of the call.                            *)
C7_HistoryAppendOnly ==
    /\ [](messages[1] = system_prompt)
    /\ [][ /\ Len(messages') >= Len(messages)
           /\ \A i \in 1..Len(messages) : messages'[i] = messages[i]
           /\ (pc = "idle" /\ pc' # "idle")
                 => (messages' = Append(messages, UserMessage(user_input')) /\ requests' = 0)
           /\ pc # "idle"
                 => \A i \in (Len(messages) + 1)..Len(messages') : messages'[i].role # "user"
           /\ requests' # requests /\ pc = "idle" => requests' = 0 ]_vars

C7_Witness ==
    /\ Cardinality({ i \in 1..Len(messages) : messages[i].role = "user" }) = 2
    /\ Cardinality({ i \in 1..Len(messages) : messages[i].role = "tool" }) >= 2
    /\ requests >= 2

(* C8: every tool message carries the invocation ID of a tool call requested *)
(* by the nearest preceding assistant message, and only tool messages        *)
(* answering that assistant message lie between the two.                     *)
C8_ToolMessagesAnswerNearestAssistant ==
    \A i \in 1..Len(messages) :
        messages[i].role = "tool" =>
            \E j \in 1..(i - 1) :
                /\ messages[j].role = "assistant"
                /\ \A k \in (j + 1)..i :
                      /\ messages[k].role = "tool"
                      /\ \E n \in 1..Len(messages[j].tool_calls) :
                            messages[k].tool_call_id = messages[j].tool_calls[n].id

\* a tool message of a second turn, whose assistant message is not the first
\* assistant message of the history
C8_Witness ==
    \E j \in 1..Len(messages) :
        /\ j + 1 <= Len(messages)
        /\ messages[j].role = "assistant"
        /\ messages[j + 1].role = "tool"
        /\ messages[j + 1].tool_call_id = messages[j].tool_calls[1].id
        /\ \E i \in 1..(j - 1) : messages[i].role = "assistant"

(* C9: a requested tool call with an unknown name gets a tool message that  *)
(* references its invocation ID and carries the status "error" envelope     *)
(* with the unknown-function message; the remaining calls of the same       *)
(* assistant message are still dispatched and the loop goes on.             *)
C9_UnknownToolAnswered ==
    TurnOver =>
        \A j \in 1..Len(messages) :
            \A n \in 1..Len(messages[j].tool_calls) :
                messages[j].tool_calls[n].name \notin KnownTools =>
                    /\ j + Len(messages[j].tool_calls) <= Len(messages)
                    /\ \A m \in n..Len(messages[j].tool_calls) :
                          messages[j + m].role = "tool"
                    /\ messages[j + n].tool_call_id = messages[j].tool_calls[n].id
                    /\ messages[j + n].content =
                          json_dumps([status |-> "error",
                                      message |-> <<"Unknown function: ",
                                                    messages[j].tool_calls[n].name>>])

(* C10: while no backend credential is configured, every result of the      *)
(* create, list and cancel tools is the failure envelope saying the key is  *)
(* not configured, and no backend HTTP request is issued in any turn.       *)
C10_NoKeyToolsFail ==
    cal_api_key \in {None, ""} =>
        /\ http_log = <<>>
        /\ \A i \in 1..Len(messages) :
              (messages[i].role = "tool" /\ messages[i].name \in KnownTools) =>
                  messages[i].content =
                      [json |-> [status |-> "failure",
                                 message |-> <<"Cal.com API key not configured in the agent.">>]]

\* without a key, the booking tool has answered a call that names an
\* unresolvable time zone
C10_Witness ==
    /\ cal_api_key \in {None, ""}
    /\ \E j \in 1..(Len(messages) - 1) :
          /\ messages[j].role = "assistant"
          /\ Len(messages[j].tool_calls) = 1
          /\ messages[j].tool_calls[1].name = "book_cal_com_meeting"
          /\ messages[j].tool_calls[1].arguments =
                 JsonText(JDict([BookArgs EXCEPT !.timeZone = "Mars/Phobos"]))
          /\ messages[j + 1].role = "tool"
          /\ messages[j + 1].name = "book_cal_com_meeting"

-----------------------------------------------------------------------------
(* Vocabulary of the properties about one operation invoked on its own *)

ClientOps == {"_make_cal_request", "_make_cal_request_find"}

\* the methods a request path supports
Supported(op) == IF op = "_make_cal_request" THEN {"GET", "POST", "DELETE"}
                 ELSE {"GET", "POST"}

\* the reply is a 2xx response whose body is JSON
IsOk2xx(o) == o.kind = "response" /\ o.status_code \in 200..299 /\ Decodes(o)

HasErrorKey(v) == IsDict(v) /\ Has(v.v, "error")

\* the returned text is an envelope with this status
IsEnvelope(ret, status) == "json" \in DOMAIN ret /\ ret.json.status = status

Issued(method) == { i \in 1..Len(call.http) : call.http[i].method = method }

\* the value the legacy path hands to the booking tool for the reply to the POST
PostValue == make_cal_request(cal_api_key, "POST", "/bookings", NoneValue, call.net[1]).val

\* the value the bearer path hands to a tool for the reply to the list fetch
GetValue == make_cal_request_find(cal_api_key, "GET", "/bookings", NoneValue, call.net[1]).val

\* the tool got past the key test and the normalization of its arguments
Normalized ==
    /\ KeySet(cal_api_key)
    /\ ZoneInfo(call.args.timeZone).exc = ""
    /\ strptime(call.args.date, call.args.start).exc = ""

-----------------------------------------------------------------------------
(* C11: both request paths always return a value and never raise: the       *)
(* decoded body for a 2xx JSON response, and in every other case a value    *)
(* with an error key: no credential (then nothing is sent), unsupported     *)
(* method, non-2xx response (with its status code and raw text), transport  *)
(* failure, undecodable 2xx body.                                           *)
C11_ClientAlwaysReturnsValue ==
    call.op \in ClientOps =>
        LET o == call.net[1]
            sent == KeySet(cal_api_key) /\ Upper(call.args.method) \in Supported(call.op)
        IN  /\ call.exc = ""
            /\ ~KeySet(cal_api_key) => call.http = <<>>
            /\ IF sent /\ IsOk2xx(o)
               THEN call.ret = o.body
               ELSE /\ HasErrorKey(call.ret)
                    /\ (sent /\ o.kind = "response" /\ o.status_code \notin 200..299)
                          => /\ Has(call.ret.v, "status_code")
                             /\ call.ret.v["status_code"] = o.status_code
                             /\ call.ret.v["raw_text"] = o.text

(* C12: the booking tool posts at most once; it reports success only when   *)
(* the value returned for the POST has no error key and has an identifier,  *)
(* and for every returned value without an identifier it returns a failure  *)
(* envelope.                                                                *)
C12_BookSuccessNeedsIdentifier ==
    call.op = "book_cal_com_meeting" =>
        /\ Len(call.http) <= 1
        /\ \A i \in 1..Len(call.http) : call.http[i].method = "POST"
        /\ IsEnvelope(call.ret, "success") =>
              /\ Len(call.http) = 1
              /\ ~HasErrorKey(PostValue)
              /\ IsDict(PostValue) /\ Has(PostValue.v, "id")
        /\ (Len(call.http) = 1 /\ ~(IsDict(PostValue) /\ Has(PostValue.v, "id"))) =>
              /\ call.exc = ""
              /\ IsEnvelope(call.ret, "failure")

(* C13: for every date or time text that does not parse under the fixed     *)
(* format, the booking tool returns a status "failure" envelope, does not   *)
(* raise, and sends no POST.                                                *)
C13_MalformedDateFailsFast ==
    (call.op = "book_cal_com_meeting"
     /\ strptime(call.args.date, call.args.start).exc # "") =>
        /\ call.exc = ""
        /\ IsEnvelope(call.ret, "failure")
        /\ call.http = <<>>

(* C14: for a time zone name without a zone definition, the booking tool    *)
(* and the cancellation tool return a failure envelope without raising;     *)
(* the booking tool sends no POST and the cancellation tool no DELETE.      *)
C14_UnresolvableZoneIsValidationError ==
    (call.op \in {"book_cal_com_meeting", "cancel_cal_com_meeting"}
     /\ ZoneInfo(call.args.timeZone).exc # "") =>
        /\ call.exc = ""
        /\ IsEnvelope(call.ret, "failure")
        /\ Issued("POST") = {}
        /\ Issued("DELETE") = {}

\* the body has the nesting the listing tool expects
ExpectedNesting(v) ==
    /\ IsDict(v)
    /\ Get(v.v, "status", None) = "success"
    /\ Has(v.v, "data")
    /\ IsDict(v.v["data"])
    /\ Has(v.v["data"].v, "bookings")
    /\ v.v["data"].v["bookings"].t = "list"

(* C15: the listing tool always returns an envelope text, and for every     *)
(* list response without an error key that deviates from the expected       *)
(* nesting it returns the failure envelope with the unexpected-response-    *)
(* format message, which no transport or HTTP failure gets.                 *)
C15_OffFormatListingFails ==
    call.op = "show_cal_com_booked_meetings" =>
        /\ call.exc = ""
        /\ "json" \in DOMAIN call.ret
        /\ (KeySet(cal_api_key) /\ IsOk2xx(call.net[1]) /\ ~HasErrorKey(GetValue)
            /\ ~ExpectedNesting(GetValue))
              => call.ret = Failure(<<"Failed to retrieve meetings from Cal.com: ",
                                      unexpected_format>>)
        /\ (KeySet(cal_api_key) /\ ~IsOk2xx(call.net[1]))
              => call.ret # Failure(<<"Failed to retrieve meetings from Cal.com: ",
                                      unexpected_format>>)

\* the listing tool's answer for an attendee without bookings
NoMeetings(attendeeEmail) ==
    json_dumps([status |-> "success",
                message |-> <<"No meetings found for ", attendeeEmail, ".">>,
                events |-> JList(<<>>)])

(* C16: when the list response is the success envelope with an empty        *)
(* bookings list, the listing tool returns status "success" with no events  *)
(* and the no-meetings-found message; it returns that text for no other     *)
(* response, neither a non-empty list nor any failure.                      *)
C16_EmptyListIsSuccess ==
    (call.op = "show_cal_com_booked_meetings" /\ KeySet(cal_api_key)) =>
        LET empty == IsOk2xx(call.net[1]) /\ GetValue = Listing(<<>>)
        IN  /\ empty => (call.exc = "" /\ call.ret = NoMeetings(call.args.attendeeEmail))
            /\ ~empty => call.ret # NoMeetings(call.args.attendeeEmail)

C16_Witness ==
    /\ call.op = "show_cal_com_booked_meetings"
    /\ KeySet(cal_api_key)
    /\ call.net[1] = Ok(Listing(<<>>))
    /\ call.ret = NoMeetings("alice@example.com")
    /\ Len(call.http) = 1

\* the instant the cancellation tool is asked about
TargetInstant ==
    Instant([naive |-> strptime(call.args.date, call.args.start).naive, fold |-> 0,
             tz |-> ZoneInfo(call.args.timeZone).key])

\* the booking record has a start time that can be read
HasStart(b) ==
    /\ IsDict(b)
    /\ Has(b.v, "startTime")
    /\ fromisoformat(b.v["startTime"]).exc = ""

(* C17: when the list fetch returns bookings, each with a start time, and   *)
(* none of them starts at the target instant, the cancellation tool returns *)
(* the no-meeting-found failure and sends no DELETE.                        *)
C17_NoMatchNoDelete ==
    (call.op = "cancel_cal_com_meeting" /\ Normalized /\ IsOk2xx(call.net[1])
     /\ ExpectedNesting(GetValue)
     /\ LET bookings == GetValue.v["data"].v["bookings"].v.items
        IN  \A i \in 1..Len(bookings) :
                /\ HasStart(bookings[i])
                /\ fromisoformat(bookings[i].v["startTime"]).utc # TargetInstant) =>
        /\ call.ret = Failure(<<"No meeting found for ", call.args.attendeeEmail, " on ",
                                call.args.date, " at ", call.args.start, " ",
                                call.args.timeZone, ".">>)
        /\ Issued("DELETE") = {}

(* C18: when the POST of the booking tool is answered with HTTP status 409, *)
(* the failure message is the slot-unavailable text whatever the body says; *)
(* every other failure message carries the message field of the value       *)
(* returned for the POST, or else its error field, and never that text.     *)
C18_ConflictMessage ==
    (call.op = "book_cal_com_meeting" /\ Len(call.http) = 1
     /\ IsEnvelope(call.ret, "failure")) =>
        LET o == call.net[1]
            said == call.ret.json.message[2]
            Surfaced(x) == said = x \/ (Len(said) = 4 /\ said[1] = x)
        IN  IF o.kind = "response" /\ o.status_code = 409
            THEN said = slot_unavailable
            ELSE /\ said # slot_unavailable
                 /\ (IsDict(PostValue) /\ Has(PostValue.v, "message"))
                       => Surfaced(PostValue.v["message"])
                 /\ (IsDict(PostValue) /\ ~Has(PostValue.v, "message")
                     /\ Has(PostValue.v, "error"))
                       => Surfaced(PostValue.v["error"])

\* a 409 whose body carries a message of its own
C18_Witness ==
    /\ call.op = "book_cal_com_meeting"
    /\ Len(call.http) = 1
    /\ call.net[1].kind = "response"
    /\ call.net[1].status_code = 409
    /\ Decodes(call.net[1])
    /\ call.ret = Failure(<<"Failed to book meeting on Cal.com: ", slot_unavailable>>)

(* C19: the end the booking tool posts is the posted start plus the         *)
(* duration, as instants, also when the zone changes its offset between     *)
(* the two.                                                                 *)
C19_EndIsStartPlusDuration ==
    (call.op = "book_cal_com_meeting" /\ Len(call.http) = 1) =>
        LET json_data == call.http[1].json_data
        IN  IsoInstant(json_data.end) = IsoInstant(json_data.start) + call.args.duration_minutes

(* C20: whenever a completion request is made, and whenever a chat call has *)
(* ended, every tool call requested by an assistant message of the history  *)
(* is answered by a tool message with its invocation ID, the answers        *)
(* following that assistant message in request order.                       *)
C20_EveryToolCallAnswered ==
    (pc = "create" \/ TurnOver) =>
        \A j \in 1..Len(messages) :
            \A n \in 1..Len(messages[j].tool_calls) :
                /\ j + n <= Len(messages)
                /\ messages[j + n].role = "tool"
                /\ messages[j + n].tool_call_id = messages[j].tool_calls[n].id

\* the bookings of a list reply with the expected nesting
Listed == GetValue.v["data"].v["bookings"].v.items

\* the booking starts at the instant the cancellation tool is asked about
StartsAtTarget(b) ==
    HasStart(b) /\ fromisoformat(b.v["startTime"]).utc = TargetInstant

\* the place in the list of the first booking that starts at the target
\* instant, 0 when there is none
FirstAtTarget ==
    IF \E i \in 1..Len(Listed) : StartsAtTarget(Listed[i])
    THEN CHOOSE i \in 1..Len(Listed) :
            /\ StartsAtTarget(Listed[i])
            /\ \A j \in 1..(i - 1) : ~StartsAtTarget(Listed[j])
    ELSE 0

\* the list fetch ended in an error: a transport or HTTP failure, a body
\* that is not JSON, or a body with an error key
FetchErrored == HasErrorKey(GetValue)

could_not_retrieve == <<"Failed to retrieve bookings to find the meeting to cancel.">>

(* C21: in an invocation of the cancellation tool with a key configured the *)
(* first request is the list fetch; at most one DELETE is sent, as the      *)
(* second request, only when the fetch returned without an error, only to   *)
(* the identifier of the first booking in list order that starts at the     *)
(* target instant, and with the reason as its body; when the fetch ends in  *)
(* an error the tool returns the could-not-retrieve failure and sends no    *)
(* DELETE.                                                                  *)
C21_FetchThenOneDelete ==
    (call.op = "cancel_cal_com_meeting" /\ KeySet(cal_api_key)) =>
        /\ Len(call.http) >= 1
        /\ call.http[1].method = "GET"
        /\ Cardinality(Issued("DELETE")) <= 1
        /\ Issued("DELETE") # {} =>
              /\ Issued("DELETE") = {2}
              /\ ~FetchErrored
              /\ ExpectedNesting(GetValue)
              /\ FirstAtTarget # 0
              /\ call.http[2].endpoint = <<"/bookings/", Listed[FirstAtTarget].v["id"]>>
              /\ call.http[2].json_data = [reason |-> Get(call.args, "reason", "")]
        /\ FetchErrored =>
              /\ call.ret = Failure(could_not_retrieve)
              /\ Issued("DELETE") = {}

\* the value the legacy path hands to the cancellation tool for the reply to
\* the DELETE
DeleteValue ==
    make_cal_request(cal_api_key, "DELETE", call.http[2].endpoint, call.http[2].json_data,
                     call.net[2]).val

\* the booking the DELETE was sent for
Matched ==
    LET at == CHOOSE i \in 1..Len(Listed) :
                Has(Listed[i].v, "id")
                /\ call.http[2].endpoint = <<"/bookings/", Listed[i].v["id"]>>
    IN  Listed[at]

\* the success the cancellation tool returns for the matched booking
Cancelled ==
    json_dumps([status |-> "success",
                message |-> <<"Successfully cancelled meeting '", Matched.v["title"],
                              "' scheduled for ", call.args.date, " at ", call.args.start,
                              " ", call.args.timeZone, ".">>,
                booking_details |-> Matched.v])

(* C22: after the cancellation tool sent a DELETE, it returns the success   *)
(* with the matched booking, its title, the date and the time exactly when  *)
(* the value returned for the DELETE has no error key, an empty object      *)
(* included, and it returns a failure exactly when that value has an error  *)
(* key.                                                                     *)
C22_SuccessIffNoErrorKey ==
    (call.op = "cancel_cal_com_meeting" /\ Issued("DELETE") # {}) =>
        /\ call.exc = ""
        /\ ~In("error", DeleteValue) <=> call.ret = Cancelled
        /\ In("error", DeleteValue) <=> IsEnvelope(call.ret, "failure")

\* the session whose chat call appended the message at this place of the
\* history (every chat call appends one user message, then the rest)
Owner(i) ==
    served[Cardinality({ j \in 1..i : messages[j].role = "user" })]

(* C23: when a completion request is made on behalf of a session of the     *)
(* chat front end, the history it submits holds no user message and no tool *)
(* result of another session, however the turns of the two sessions         *)
(* alternate.                                                               *)
C23_SessionsIsolated ==
    pc = "create" =>
        \A i \in 2..Len(messages) :
            messages[i].role \in {"user", "tool"} => Owner(i) = served[Len(served)]

\* the pieces of the failure message of the booking tool that are characters
\* of the response text: the text inside the error value of the request
\* path, and the details put after it
RawPieces(said) ==
    LET base == IF Len(said) = 4 THEN said[1] ELSE said
    IN  (IF Len(base) = 3 /\ "raw" \in DOMAIN base[3] THEN {base[3].raw} ELSE {})
        \cup (IF Len(said) = 4 /\ "raw" \in DOMAIN said[3] THEN {said[3].raw} ELSE {})

(* C24: whatever the length of a response text that is not JSON, every      *)
(* piece of it in the failure message of the booking tool is a prefix of it *)
(* of at most 200 characters.                                               *)
C24_RawTextTruncated ==
    (call.op = "book_cal_com_meeting" /\ Len(call.http) = 1
     /\ IsEnvelope(call.ret, "failure")
     /\ call.net[1].kind = "response" /\ ~Decodes(call.net[1])) =>
        \A piece \in RawPieces(call.ret.json.message[2]) :
            /\ Len(piece) <= 200
            /\ piece = SubSeq(call.net[1].text.raw, 1, Len(piece))

=============================================================================
